---- MODULE Spec2Model ----
(***************************************************************************)
(* A model of dadi/SFS.py: the discretisation of a density phi into a      *)
(* site frequency spectrum (SFS), the scaling and masking utilities and    *)
(* the summary statistics.                                                 *)
(*                                                                         *)
(* Real numbers are exact rationals <<num, den>> in lowest terms with      *)
(* den > 0, so that the algebraic identities are decided exactly.  The     *)
(* module is Python 2 code (range(...) + [0] at line 113, implicit         *)
(* relative import at line 7, no "from __future__ import division"): the   *)
(* operator / on two integers is floor division and is modelled so.        *)
(*                                                                         *)
(* The entries of an SFS, of phi and of a grid are floats (real-valued     *)
(* tensors); the integers the code divides are the ones it derives itself  *)
(* from shapes and ranks (n at line 208, r at line 103, ns at line 104).   *)
(*                                                                         *)
(* An array is a record [shape, data, mask]: shape is the tuple of axis    *)
(* lengths, data and mask are functions over the multi-indices (0-based).  *)
(* A plain ndarray and a masked array with no masked entry behave alike    *)
(* in every function below and are both modelled with an all-FALSE mask.   *)
(***************************************************************************)
EXTENDS Integers, Sequences, FiniteSets, TLC

VARIABLES args, called, ret

vars == <<args, called, ret>>

----------------------------------------------------------------------------
(* Bounds of the model *)

\* largest number of entries of an SFS drawn as input
MaxCells == 4
\* entries of an input SFS are the integers 0..MaxVal
MaxVal == 1

----------------------------------------------------------------------------
(* Exact rational arithmetic *)

Abs(a) == IF a < 0 THEN -a ELSE a

RECURSIVE GCD(_, _)
GCD(a, b) == IF b = 0 THEN a ELSE GCD(b, a % b)

\* the rational n/d (d # 0) in lowest terms, denominator positive
Q(n, d) ==
    LET g == GCD(Abs(n), Abs(d))
        s == IF d < 0 THEN -1 ELSE 1
    IN  <<(s * n) \div g, (s * d) \div g>>

QI(n) == <<n, 1>>
QAdd(a, b) == Q(a[1] * b[2] + b[1] * a[2], a[2] * b[2])
QSub(a, b) == Q(a[1] * b[2] - b[1] * a[2], a[2] * b[2])
QMul(a, b) == Q(a[1] * b[1], a[2] * b[2])
QDiv(a, b) == Q(a[1] * b[2], a[2] * b[1])
QLess(a, b) == a[1] * b[2] < b[1] * a[2]
QLeq(a, b) == a[1] * b[2] <= b[1] * a[2]
QZero == QI(0)
QOne == QI(1)

RECURSIVE QPow(_, _)
QPow(a, k) == IF k = 0 THEN QOne ELSE QMul(a, QPow(a, k - 1))

\* the sum of f[i] over the finite set S
RECURSIVE QSum(_, _)
QSum(f, S) ==
    IF S = {} THEN QZero
    ELSE LET i == CHOOSE j \in S : TRUE
         IN  QAdd(f[i], QSum(f, S \ {i}))

\* Scalar results that are not numbers are pairs with denominator 0: the
\* constant numpy.ma.masked, the IEEE values a float division by zero yields,
\* and the exceptions raised.
Masked == <<0, 0>>
NaN == <<1, 0>>
Inf == <<2, 0>>
NegInf == <<-2, 0>>
ValueError == <<3, 0>>
ZeroDivisionError == <<4, 0>>
NameError == <<5, 0>>
IsNum(v) == v[2] # 0
IsError(v) == v \in {ValueError, ZeroDivisionError, NameError}

\* float division a/b of numpy scalars: x/0 is inf or nan, never an exception
FDiv(a, b) ==
    IF b # QZero THEN QDiv(a, b)
    ELSE IF a = QZero THEN NaN
    ELSE IF a[1] < 0 THEN NegInf ELSE Inf

----------------------------------------------------------------------------
(* Arrays *)

RECURSIVE Prod(_)
Prod(s) == IF s = <<>> THEN 1 ELSE Head(s) * Prod(Tail(s))

RECURSIVE SeqMax(_)
SeqMax(s) ==
    IF s = <<>> THEN 0
    ELSE LET m == SeqMax(Tail(s)) IN IF Head(s) > m THEN Head(s) ELSE m

\* the multi-indices (0-based, as in the code) of an array of shape s
Indices(s) ==
    {i \in [1..Len(s) -> 0..(SeqMax(s) - 1)] : \A k \in 1..Len(s) : i[k] < s[k]}

ndim(a) == Len(a.shape)

\* position of multi-index i in C (row-major) order: the index of a.flat
RECURSIVE FlatFrom(_, _, _)
FlatFrom(s, i, k) ==
    IF k > Len(s) THEN 0
    ELSE i[k] * Prod(SubSeq(s, k + 1, Len(s))) + FlatFrom(s, i, k + 1)
Flat(s, i) == FlatFrom(s, i, 1)

\* MaskedArray.sum(): the sum of the unmasked entries, and the constant
\* numpy.ma.masked when every entry is masked
MaSum(a) ==
    LET I == Indices(a.shape)
    IN  IF \A i \in I : a.mask[i] THEN Masked
        ELSE QSum(a.data, {i \in I : ~a.mask[i]})

----------------------------------------------------------------------------
(* mask_corners, lines 173-182 *)

\* a variant that sets only mask.flat[0]
CornerMask_first(s) == [i \in Indices(s) |-> Flat(s, i) = 0]

\* mask.flat[0] = mask.flat[-1] = True on a mask of the shape of sfs that is
\* False elsewhere (lines 178-179)
CornerMask(s) ==
    [i \in Indices(s) |-> Flat(s, i) = 0 \/ Flat(s, i) = Prod(s) - 1]

\* a variant in which the mask given replaces the mask of the input
masked_array_replace(a, m) ==
    [shape |-> a.shape, data |-> a.data, mask |-> m]

\* numpy.ma.masked_array(sfs, mask=mask) with the default keep_mask=True: the
\* data of sfs, and the logical or of the mask of sfs with the mask given
masked_array(a, m) ==
    [shape |-> a.shape,
     data  |-> a.data,
     mask  |-> [i \in Indices(a.shape) |-> m[i] \/ a.mask[i]]]

mask_corners(sfs) == masked_array(sfs, CornerMask(sfs.shape))

----------------------------------------------------------------------------
(* Watterson_theta, lines 184-197 *)

\* numpy.sum(1./numpy.arange(1,n)**k): the sum of 1/i^k for i = 1..n-1
Harmonic(n, k) ==
    QSum([i \in 1..(n - 1) |-> QPow(Q(1, i), k)], 1..(n - 1))

\* a variant without the check of the rank at line 190
Watterson_theta_nocheck(sfs) ==
    LET n == sfs.shape[1] - 1
        S == MaSum(mask_corners(sfs))
        denom == Harmonic(n, 1)
    IN  IF S = Masked THEN Masked ELSE FDiv(S, denom)

Watterson_theta(sfs) ==
    IF ndim(sfs) # 1 THEN ValueError
    ELSE LET n == sfs.shape[1] - 1
             S == MaSum(mask_corners(sfs))
             denom == Harmonic(n, 1)
         IN  IF S = Masked THEN Masked ELSE FDiv(S, denom)

----------------------------------------------------------------------------
(* pi, lines 199-211 *)

\* a variant that weights by p instead of p*(1-p)
PiTerms_p(sfs, n) ==
    [shape |-> sfs.shape,
     data  |-> [i \in Indices(sfs.shape) |-> QMul(sfs.data[i], Q(i[1], n))],
     mask  |-> sfs.mask]

\* sfs*p*(1-p) with p = 1.*numpy.arange(0,n+1)/n, for n >= 1 (line 210-211)
PiTerms(sfs, n) ==
    [shape |-> sfs.shape,
     data  |-> [i \in Indices(sfs.shape) |->
                   QMul(sfs.data[i],
                        QMul(Q(i[1], n), QSub(QOne, Q(i[1], n))))],
     mask  |-> sfs.mask]

\* n/(n-1) at line 211: n = sfs.shape[0]-1 is a Python 2 int, so / is floor
\* division (n >= 2 here)
PiFactor(n) == QI(n \div (n - 1))

pi(sfs) ==
    IF ndim(sfs) # 1 THEN ValueError
    ELSE LET n == sfs.shape[1] - 1
         IN  IF n = 0
             THEN \* p = 0./0 = nan; n/(n-1) = 0
                  IF sfs.mask[<<0>>] THEN Masked ELSE NaN
             ELSE IF n = 1
             THEN ZeroDivisionError   \* integer 1/0
             ELSE LET s == MaSum(PiTerms(sfs, n))
                  IN  IF s = Masked THEN Masked
                      ELSE QMul(QMul(PiFactor(n), QI(2)), s)

----------------------------------------------------------------------------
(* Tajima_D, lines 213-237 *)

\* The value num/sqrt(rad) with rad > 0 is the 4-tuple of the two rationals.
TajimaValue(num, rad) == <<num[1], num[2], rad[1], rad[2]>>

Tajima_D(sfs) ==
    IF ndim(sfs) # 1 THEN ValueError
    ELSE LET S == MaSum(mask_corners(sfs))
             n == sfs.shape[1] - 1
             pihat == pi(sfs)
             theta == Watterson_theta(sfs)
         IN  IF n <= 1
             THEN \* n = 1: pi raises; n = 0: b2 divides the Python float
                  \* 2*(n**2+n+3) by 9*n*(n-1) = 0
                  ZeroDivisionError
             ELSE LET a1 == Harmonic(n, 1)
                      a2 == Harmonic(n, 2)
                      b1 == Q(n + 1, 3 * (n - 1))
                      b2 == Q(2 * (n * n + n + 3), 9 * n * (n - 1))
                      c1 == QSub(b1, QDiv(QOne, a1))
                      c2 == QAdd(QSub(b2, QDiv(QI(n + 2), QMul(a1, QI(n)))),
                                 QDiv(a2, QMul(a1, a1)))
                  IN  IF S = Masked THEN Masked
                      ELSE LET rad == QAdd(QMul(QDiv(c1, a1), S),
                                           QMul(QDiv(c2, QAdd(QMul(a1, a1), a2)),
                                                QMul(S, QSub(S, QOne))))
                               num == QSub(pihat, theta)
                           IN  IF QLess(rad, QZero) THEN NaN
                               ELSE IF rad = QZero THEN FDiv(num, QZero)
                               ELSE TajimaValue(num, rad)

----------------------------------------------------------------------------
(* Fst, lines 88-136 *)

\* (r-1)/r at lines 129-130: r = sfs.ndim is a Python 2 int, so / is floor
\* division
FstRatio(r) == QI((r - 1) \div r)

\* The arrays a and d of lines 129-130, for rank r >= 2 and every n_k >= 1.
FstTerms(shape) ==
    LET r == Len(shape)
        K == 1..r
        ns == [k \in K |-> shape[k] - 1]
        RECURSIVE ISum(_, _)
        ISum(f, S) == IF S = {} THEN 0
                      ELSE LET k == CHOOSE j \in S : TRUE
                           IN  f[k] + ISum(f, S \ {k})
        nsum == ISum(ns, K)
        nbar == Q(nsum, r)
        \* line 107: both divisions are between integers
        nc == (nsum - (ISum([k \in K |-> ns[k] * ns[k]], K) \div nsum))
                  \div (r - 1)
        ptwiddle(i) == [k \in K |-> Q(i[k], ns[k])]
        pbar(i) == QDiv(QSum([k \in K |-> QMul(QI(ns[k]), ptwiddle(i)[k])], K),
                        QI(nsum))
        s2(i) == QDiv(QSum([k \in K |->
                              QMul(QI(ns[k]),
                                   QPow(QSub(ptwiddle(i)[k], pbar(i)), 2))], K),
                      QMul(QI(r - 1), nbar))
        twonbar1 == QSub(QMul(QI(2), nbar), QOne)
        het(i) == QSub(QMul(pbar(i), QSub(QOne, pbar(i))),
                       QMul(FstRatio(r), s2(i)))
    IN  [a |-> [i \in Indices(shape) |->
                  QMul(QDiv(nbar, QI(nc)),
                       QSub(s2(i), QMul(QDiv(QOne, twonbar1), het(i))))],
         d |-> [i \in Indices(shape) |->
                  QMul(QDiv(QMul(QI(2), nbar), twonbar1), het(i))]]

Fst(sfs) ==
    LET I == Indices(sfs.shape)
    IN  IF \A i \in I : sfs.mask[i] THEN Masked
        ELSE IF ndim(sfs) < 2 \/ \E k \in 1..ndim(sfs) : sfs.shape[k] = 1
        THEN \* r-1 = 0 or some n_k = 0: 0/0 in every entry of a and d
             NaN
        ELSE LET t == FstTerms(sfs.shape)
                 times(w) == [shape |-> sfs.shape,
                              data  |-> [i \in I |-> QMul(sfs.data[i], w[i])],
                              mask  |-> sfs.mask]
                 asum == MaSum(times(t.a))
                 dsum == MaSum(times(t.d))
             IN  FDiv(asum, QAdd(asum, dsum))

----------------------------------------------------------------------------
(* randomly_resampled_2D, lines 138-171 *)

\* n1,n2 = numpy.asarray(sfs.shape)-1 (line 146) unpacks exactly two values.
\* The pooled spectrum of lines 150-156 is built, and the first evaluation of
\* prob (line 166) calls lncomb, a name the module neither defines nor
\* imports: the loops of lines 160-161 run at least once, so every call with
\* a rank-2 SFS ends there.
randomly_resampled_2D(sfs) ==
    IF ndim(sfs) # 2 THEN ValueError ELSE NameError

----------------------------------------------------------------------------
(* The statistics and mask_corners applied to one SFS *)

Ranks == 1..3

RECURSIVE ShapesOfRank(_)
ShapesOfRank(r) ==
    IF r = 0 THEN {<<>>}
    ELSE {Append(s, m) : s \in ShapesOfRank(r - 1), m \in 1..MaxCells}

Shapes == {s \in UNION {ShapesOfRank(r) : r \in Ranks} : Prod(s) <= MaxCells}

Arrays(s) ==
    [shape : {s},
     data  : [Indices(s) -> {QI(v) : v \in 0..MaxVal}],
     mask  : [Indices(s) -> BOOLEAN]]

SFSInputs == UNION {Arrays(s) : s \in Shapes}

Init ==
    /\ args \in [sfs : SFSInputs]
    /\ called = "none"
    /\ ret = Masked

CallMaskCorners ==
    /\ called = "none"
    /\ called' = "mask_corners"
    /\ ret' = mask_corners(args.sfs)
    /\ UNCHANGED args

CallWattersonTheta ==
    /\ called = "none"
    /\ called' = "Watterson_theta"
    /\ ret' = Watterson_theta(args.sfs)
    /\ UNCHANGED args

CallPi ==
    /\ called = "none"
    /\ called' = "pi"
    /\ ret' = pi(args.sfs)
    /\ UNCHANGED args

CallTajimaD ==
    /\ called = "none"
    /\ called' = "Tajima_D"
    /\ ret' = Tajima_D(args.sfs)
    /\ UNCHANGED args

CallFst ==
    /\ called = "none"
    /\ called' = "Fst"
    /\ ret' = Fst(args.sfs)
    /\ UNCHANGED args

CallResample ==
    /\ called = "none"
    /\ called' = "randomly_resampled_2D"
    /\ ret' = randomly_resampled_2D(args.sfs)
    /\ UNCHANGED args

Next ==
    \/ CallMaskCorners
    \/ CallWattersonTheta
    \/ CallPi
    \/ CallTajimaD
    \/ CallFst
    \/ CallResample

Spec == Init /\ [][Next]_vars

----------------------------------------------------------------------------
(* Properties of mask_corners and of the statistics *)

Rank1 == called # "none" /\ ndim(args.sfs) = 1
\* the sample size n of a 1-D input
SampleSize == args.sfs.shape[1] - 1
\* the interior indices 1..n-1 of a 1-D input that its own mask leaves visible
VisibleInterior == {i \in 1..(SampleSize - 1) : ~args.sfs.mask[<<i>>]}
HarmonicNumber == QSum([i \in 1..(SampleSize - 1) |-> Q(1, i)], 1..(SampleSize - 1))
SegregatingSites == QSum([i \in VisibleInterior |-> args.sfs.data[<<i>>]], VisibleInterior)

\* C2: mask_corners returns the values of its input, and masks exactly the
\* entries masked in the input together with the entries at multi-index
\* (0,...,0) and (n_1,...,n_r).
C2_MaskCornersUnion ==
    called = "mask_corners" =>
        LET a == args.sfs
            r == Len(a.shape)
            allAncestral == [k \in 1..r |-> 0]
            allDerived == [k \in 1..r |-> a.shape[k] - 1]
        IN  /\ ret.shape = a.shape
            /\ ret.data = a.data
            /\ \A i \in Indices(a.shape) :
                  ret.mask[i] <=> (a.mask[i] \/ i = allAncestral \/ i = allDerived)

\* a 2-population call whose input had an interior entry masked and another
\* entry visible: the first stays masked, the second stays visible
C2_Witness ==
    /\ called = "mask_corners"
    /\ args.sfs.shape = <<2, 2>>
    /\ args.sfs.mask[<<0, 1>>] /\ ret.mask[<<0, 1>>]
    /\ ~args.sfs.mask[<<1, 0>>] /\ ~ret.mask[<<1, 0>>]
    /\ ~args.sfs.mask[<<0, 0>>] /\ ret.mask[<<0, 0>>]

\* C5 as stated: for n >= 2, Watterson_theta is S / sum_{i=1}^{n-1} 1/i with S
\* the sum of the entries at 1..n-1 that the input does not mask.
C5_AsStated ==
    (called = "Watterson_theta" /\ Rank1 /\ SampleSize >= 2) =>
        ret = QDiv(SegregatingSites, HarmonicNumber)

\* C5 as amended: the same value whenever some entry at 1..n-1 is visible, and
\* the constant numpy.ma.masked (no number) when the input masks all of them.
C5_WattersonTheta ==
    (called = "Watterson_theta" /\ Rank1 /\ SampleSize >= 2) =>
        IF VisibleInterior = {}
        THEN ret = Masked
        ELSE ret = QDiv(SegregatingSites, HarmonicNumber)

\* n = 3 with a non-zero first entry, a masked interior entry holding a
\* non-zero value, and a visible non-zero one: only the last one counts
C5_Witness ==
    /\ called = "Watterson_theta"
    /\ args.sfs.shape = <<4>>
    /\ args.sfs.data[<<0>>] # QZero /\ ~args.sfs.mask[<<0>>]
    /\ args.sfs.data[<<1>>] # QZero /\ args.sfs.mask[<<1>>]
    /\ args.sfs.data[<<2>>] # QZero /\ ~args.sfs.mask[<<2>>]
    /\ ret = Q(2, 3)

\* C6: for n >= 2, pi is n/(n-1) * 2 * sum_i sfs[i]*p_i*(1-p_i), p_i = i/n,
\* over the entries the input does not mask, with n/(n-1) the exact rational.
\* (Stated for inputs with a visible interior entry.)
C6_PiExactFactor ==
    (called = "pi" /\ Rank1 /\ SampleSize >= 2 /\ VisibleInterior # {}) =>
        LET n == SampleSize
            V == {i \in 0..n : ~args.sfs.mask[<<i>>]}
            term == [i \in V |-> QMul(args.sfs.data[<<i>>],
                                      QMul(Q(i, n), Q(n - i, n)))]
        IN  ret = QMul(QMul(Q(n, n - 1), QI(2)), QSum(term, V))

\* C7: with n1 = n2 = n >= 1 and non-zero entries only at (n,0) and (0,n),
\* Fst is exactly 1.  (Stated for inputs with no masked entry.)
C7_FstFixedDifference ==
    LET a == args.sfs
        n == a.shape[1] - 1
        I == Indices(a.shape)
        fixed == {<<n, 0>>, <<0, n>>}
    IN  (/\ called = "Fst"
         /\ ndim(a) = 2 /\ a.shape[1] = a.shape[2] /\ n >= 1
         /\ \A i \in I : ~a.mask[i]
         /\ \A i \in I \ fixed : a.data[i] = QZero
         /\ \E i \in fixed : a.data[i] # QZero)
        => ret = QOne

\* C8: randomly_resampled_2D of a rank-2 SFS returns an array whose entries
\* sum to the sum of the unmasked entries of the input.
C8_ResamplePreservesTotal ==
    (called = "randomly_resampled_2D" /\ ndim(args.sfs) = 2) =>
        /\ ~IsError(ret)
        /\ LET I == Indices(args.sfs.shape)
               V == {i \in I : ~args.sfs.mask[i]}
           IN  QSum(ret.data, I) = QSum(args.sfs.data, V)

\* C9: Watterson_theta, pi and Tajima_D on an SFS of rank other than 1, and
\* randomly_resampled_2D on an SFS of rank other than 2, end in an error and
\* return no value, and the call leaves the input as it was.
C9_RankErrors ==
    [][ LET r == ndim(args.sfs)
        IN  /\ (called' \in {"Watterson_theta", "pi", "Tajima_D"} /\ r # 1)
                 => (ret' = ValueError /\ args' = args)
            /\ (called' = "randomly_resampled_2D" /\ r # 2)
                 => (IsError(ret') /\ args' = args) ]_vars

C9_Witness ==
    \/ called = "Tajima_D" /\ ndim(args.sfs) = 2 /\ ret = ValueError
    \/ called = "randomly_resampled_2D" /\ ndim(args.sfs) = 3 /\ ret = ValueError

\* the input with its first and last entries replaced by v and w
WithCorners(a, v, w) ==
    [a EXCEPT !.data = [i \in Indices(a.shape) |->
        IF i[1] = 0 THEN QI(v)
        ELSE IF i[1] = a.shape[1] - 1 THEN QI(w) ELSE a.data[i]]]

\* C10 as stated: for n >= 2, pi(sfs) = pi(mask_corners(sfs)).
C10_AsStated ==
    (called = "pi" /\ Rank1 /\ SampleSize >= 2) =>
        ret = pi(mask_corners(args.sfs))

\* C10 as amended: for n >= 2 the first and last entries contribute zero to
\* pi whatever their values, and pi(sfs) = pi(mask_corners(sfs)) unless the
\* input masks every entry at 1..n-1 but not both corners: then pi(sfs) is 0
\* and pi(mask_corners(sfs)) is the constant numpy.ma.masked.
C10_PiIgnoresCorners ==
    (called = "pi" /\ Rank1 /\ SampleSize >= 2) =>
        LET a == args.sfs
            n == SampleSize
        IN  /\ \A v, w \in 0..MaxVal : pi(WithCorners(a, v, w)) = ret
            /\ IF VisibleInterior # {} \/ (a.mask[<<0>>] /\ a.mask[<<n>>])
               THEN ret = pi(mask_corners(a))
               ELSE ret = QZero /\ pi(mask_corners(a)) = Masked

\* both corners visible and non-zero, a visible non-zero interior entry
C10_Witness ==
    /\ called = "pi" /\ Rank1 /\ SampleSize >= 2
    /\ ~args.sfs.mask[<<0>>] /\ args.sfs.data[<<0>>] # QZero
    /\ ~args.sfs.mask[<<SampleSize>>] /\ args.sfs.data[<<SampleSize>>] # QZero
    /\ \E i \in VisibleInterior : args.sfs.data[<<i>>] # QZero
    /\ IsNum(ret) /\ ret # QZero
    /\ ret = pi(mask_corners(args.sfs))

----------------------------------------------------------------------------
(* optimal_sfs_scaling and optimally_scaled_sfs, lines 70-86 *)

\* Numerics.intersect_masks: two views that keep their own values and share
\* the logical or of the two masks
intersect_masks(m, d) ==
    LET both == [i \in Indices(m.shape) |-> m.mask[i] \/ d.mask[i]]
    IN  <<[m EXCEPT !.mask = both], [d EXCEPT !.mask = both]>>

\* a variant that sums each spectrum under its own mask
optimal_sfs_scaling_ownmasks(model, data) ==
    LET dsum == MaSum(data)
        msum == MaSum(model)
    IN  IF msum = Masked \/ dsum = Masked THEN Masked ELSE FDiv(dsum, msum)

\* a variant that returns the inverse ratio
optimal_sfs_scaling_inverse(model, data) ==
    LET md == intersect_masks(model, data)
        dsum == MaSum(md[2])
        msum == MaSum(md[1])
    IN  IF msum = Masked THEN Masked ELSE FDiv(msum, dsum)

optimal_sfs_scaling(model, data) ==
    LET md == intersect_masks(model, data)
        dsum == MaSum(md[2])
        msum == MaSum(md[1])
    IN  IF msum = Masked THEN Masked ELSE FDiv(dsum, msum)

\* the product c * x of a scalar result c and a number x
Scale(c, x) ==
    IF IsNum(c) THEN QMul(c, x)
    ELSE IF c = NaN \/ x = QZero THEN NaN       \* inf * 0 is nan
    ELSE IF x[1] > 0 THEN c
    ELSE IF c = Inf THEN NegInf ELSE Inf

\* c * model keeps the mask of model; numpy.ma.masked * model is masked
\* everywhere
optimally_scaled_sfs(model, data) ==
    LET c == optimal_sfs_scaling(model, data)
        I == Indices(model.shape)
    IN  IF c = Masked
        THEN [shape |-> model.shape,
              data  |-> [i \in I |-> QZero],
              mask  |-> [i \in I |-> TRUE]]
        ELSE [shape |-> model.shape,
              data  |-> [i \in I |-> Scale(c, model.data[i])],
              mask  |-> model.mask]

\* largest number of entries of the model and data spectra drawn as input
MaxScaleCells == 3

ScaleShapes == {s \in ShapesOfRank(1) \cup ShapesOfRank(2) : Prod(s) <= MaxScaleCells}

\* the spectra of shape s; an entry that a spectrum masks holds 0 under the
\* mask (its value is never read)
ScaleArrays(s) ==
    LET Entries == {<<QI(v), FALSE>> : v \in 0..MaxVal} \cup {<<QZero, TRUE>>}
    IN  {[shape |-> s,
          data  |-> [i \in Indices(s) |-> e[i][1]],
          mask  |-> [i \in Indices(s) |-> e[i][2]]] : e \in [Indices(s) -> Entries]}

InitScale ==
    /\ args \in UNION {[model : ScaleArrays(s), data : ScaleArrays(s)] :
                           s \in ScaleShapes}
    /\ called = "none"
    /\ ret = Masked

CallOptimalSfsScaling ==
    /\ called = "none"
    /\ called' = "optimal_sfs_scaling"
    /\ ret' = optimal_sfs_scaling(args.model, args.data)
    /\ UNCHANGED args

CallOptimallyScaledSfs ==
    /\ called = "none"
    /\ called' = "optimally_scaled_sfs"
    /\ ret' = optimally_scaled_sfs(args.model, args.data)
    /\ UNCHANGED args

NextScale == CallOptimalSfsScaling \/ CallOptimallyScaledSfs

SpecScale == InitScale /\ [][NextScale]_vars

----------------------------------------------------------------------------
(* Properties of the scaling utilities *)

\* the entries unmasked in both model and data
Intersection ==
    {i \in Indices(args.model.shape) : ~args.model.mask[i] /\ ~args.data.mask[i]}
ModelTotal == QSum(args.model.data, Intersection)
DataTotal == QSum(args.data.data, Intersection)

\* C3: when the model sums to a non-zero value over the intersection, the
\* scaled model sums over the intersection to what data sums to there.
C3_ScaledTotalMatchesData ==
    (called = "optimally_scaled_sfs" /\ ModelTotal # QZero) =>
        /\ ret.shape = args.model.shape
        /\ \A i \in Intersection : IsNum(ret.data[i])
        /\ QSum(ret.data, Intersection) = DataTotal

\* masks that differ, a scaling factor other than 0 and 1
C3_Witness ==
    /\ called = "optimally_scaled_sfs"
    /\ args.model.mask # args.data.mask
    /\ Cardinality(Intersection) < Cardinality(Indices(args.model.shape))
    /\ ModelTotal # QZero /\ DataTotal # QZero /\ ModelTotal # DataTotal
    /\ QSum(ret.data, Intersection) = DataTotal

\* sum over the intersection of (data - c*model)^2
SumSquares(c) ==
    QSum([i \in Intersection |->
            QPow(QSub(args.data.data[i], QMul(c, args.model.data[i])), 2)],
         Intersection)
\* sum over the intersection of model*(data - c*model): half the slope of
\* SumSquares at c, with the sign changed
Slope(c) ==
    QSum([i \in Intersection |->
            QMul(args.model.data[i],
                 QSub(args.data.data[i], QMul(c, args.model.data[i])))],
         Intersection)
\* scalars to compare with: sum(data*model)/sum(model^2) and a few others
Rivals ==
    LET mm == QSum([i \in Intersection |-> QPow(args.model.data[i], 2)], Intersection)
        dm == QSum([i \in Intersection |->
                      QMul(args.data.data[i], args.model.data[i])], Intersection)
    IN  {Q(k, 2) : k \in 0..4} \cup (IF mm = QZero THEN {} ELSE {QDiv(dm, mm)})

\* C4 as stated: no other scalar gives a strictly smaller sum of squared
\* residuals over the intersection than the one returned.
C4_AsStated ==
    (called = "optimal_sfs_scaling" /\ IsNum(ret)) =>
        \A c \in Rivals : ~QLess(SumSquares(c), SumSquares(ret))

\* C4 as amended: the scalar returned is sum(data)/sum(model) over the
\* intersection, so the residuals data - c*model sum to zero there; it
\* minimises the sum of squared residuals exactly when
\* sum(model*(data - c*model)) = 0 over the intersection.
C4_RatioOfTotals ==
    (called = "optimal_sfs_scaling" /\ IsNum(ret)) =>
        /\ QMul(ret, ModelTotal) = DataTotal
        /\ QSum([i \in Intersection |->
                   QSub(args.data.data[i], QMul(ret, args.model.data[i]))],
                Intersection) = QZero
        /\ (\A c \in Rivals : QLeq(SumSquares(ret), SumSquares(c)))
              <=> Slope(ret) = QZero

\* a call where the scalar returned is not the least-squares one
C4_Witness ==
    /\ called = "optimal_sfs_scaling" /\ IsNum(ret)
    /\ args.model.mask # args.data.mask
    /\ Slope(ret) # QZero

----------------------------------------------------------------------------
(* sfs_from_phi_1D, sfs_from_phi_2D, sfs_from_phi_3D, lines 11-68 *)

\* A grid and a vector along it are sequences (position 1 is index 0 of the
\* code); phi is a sequence along its first axis of sequences along the next.

\* the sequence f[1], ..., f[n], each element computed once (as the code
\* computes an array once and then reads it)
RECURSIVE Stored(_, _)
Stored(f, n) == IF n = 0 THEN <<>> ELSE Append(Stored(f, n - 1), f[n])

\* the function f over 0..n, each value computed once (a cache such as
\* factorx_cache, or the values a loop variable holds during one iteration)
RECURSIVE Cached(_, _)
Cached(f, n) == IF n < 0 THEN <<>> ELSE (n :> f[n]) @@ Cached(f, n - 1)

\* scipy's comb(n, k): the binomial coefficient
RECURSIVE comb(_, _)
comb(n, k) ==
    IF k < 0 \/ k > n THEN 0
    ELSE IF k = 0 THEN 1
    ELSE (comb(n, k - 1) * (n - k + 1)) \div k

\* a variant without the binomial coefficient
BinomialFactor_nocomb(n, ii, xx) ==
    Stored([j \in 1..Len(xx) |->
               QMul(QPow(xx[j], ii), QPow(QSub(QOne, xx[j]), n - ii))],
           Len(xx))

\* comb(n,ii) * xx**ii * (1-xx)**(n-ii), elementwise along the grid
\* (lines 14, 26, 31, 48, 51, 55); 0**0 is 1
BinomialFactor(n, ii, xx) ==
    Stored([j \in 1..Len(xx) |->
               QMul(QI(comb(n, ii)),
                    QMul(QPow(xx[j], ii), QPow(QSub(QOne, xx[j]), n - ii)))],
           Len(xx))

\* numpy.diff
diff(xx) == Stored([j \in 1..(Len(xx) - 1) |-> QSub(xx[j + 1], xx[j])], Len(xx) - 1)

\* trapz(y, dx=d) with d an array of spacings:
\* add.reduce(d * (y[1:] + y[:-1]) / 2.0)
trapz_dx(y, d) ==
    QSum([j \in 1..(Len(y) - 1) |->
            QDiv(QMul(d[j], QAdd(y[j + 1], y[j])), QI(2))],
         1..(Len(y) - 1))

\* trapz(y, x): the spacings are diff(x)
trapz(y, x) == trapz_dx(y, diff(x))

Times(u, v) == Stored([j \in 1..Len(u) |-> QMul(u[j], v[j])], Len(u))

NoMask(s) == [i \in Indices(s) |-> FALSE]

sfs_from_phi_1D(n, xx, phi) ==
    [shape |-> <<n + 1>>,
     data  |-> [i \in Indices(<<n + 1>>) |->
                  trapz(Times(BinomialFactor(n, i[1], xx), phi), xx)],
     mask  |-> NoMask(<<n + 1>>)]

sfs_from_phi_2D(nx, ny, xx, yy, phi) ==
    LET dx == diff(xx)
        dy == diff(yy)
        factorx_cache == Cached([ii \in 0..nx |-> BinomialFactor(nx, ii, xx)], nx)
        \* integrated_over_y during iteration jj of the loop of line 30
        integrated_over_y ==
            Cached([jj \in 0..ny |->
                      LET factory == BinomialFactor(ny, jj, yy)
                      IN  Stored([a \in 1..Len(xx) |->
                                    trapz_dx(Times(factory, phi[a]), dy)],
                                 Len(xx))], ny)
        shape == <<nx + 1, ny + 1>>
    IN  [shape |-> shape,
         data  |-> [i \in Indices(shape) |->
                      trapz_dx(Times(factorx_cache[i[1]], integrated_over_y[i[2]]), dx)],
         mask  |-> NoMask(shape)]

sfs_from_phi_3D(nx, ny, nz, xx, yy, zz, phi) ==
    LET dx == diff(xx)
        dy == diff(yy)
        dz == diff(zz)
        half_dx == Stored([j \in 1..Len(dx) |-> QDiv(dx[j], QI(2))], Len(dx))
        factorx_cache == Cached([ii \in 0..nx |-> BinomialFactor(nx, ii, xx)], nx)
        factory_cache == Cached([jj \in 0..ny |-> BinomialFactor(ny, jj, yy)], ny)
        \* over_z during iteration kk of the loop of line 54
        over_z ==
            Cached([kk \in 0..nz |->
                      LET factorz == BinomialFactor(nz, kk, zz)
                      IN  Stored([a \in 1..Len(xx) |->
                                    Stored([b \in 1..Len(yy) |->
                                              trapz_dx(Times(factorz, phi[a][b]), dz)],
                                           Len(yy))],
                                 Len(xx))], nz)
        \* over_y during iteration jj, kk of the loop of line 57
        over_y ==
            Cached([kk \in 0..nz |->
                      Cached([jj \in 0..ny |->
                                Stored([a \in 1..Len(xx) |->
                                          trapz_dx(Times(factory_cache[jj],
                                                         over_z[kk][a]), dy)],
                                       Len(xx))], ny)], nz)
        ans(ii, jj, kk) ==
            LET integrand == Times(factorx_cache[ii], over_y[kk][jj])
            IN  QSum([j \in 1..Len(dx) |->
                        QMul(half_dx[j], QAdd(integrand[j + 1], integrand[j]))],
                     1..Len(dx))
        shape == <<nx + 1, ny + 1, nz + 1>>
    IN  [shape |-> shape,
         data  |-> [i \in Indices(shape) |-> ans(i[1], i[2], i[3])],
         mask  |-> NoMask(shape)]

\* largest total of the sample sizes of the populations
MaxN == 2
\* the grid points are 0, 1/GridDen and 1
GridDen == 3
\* the density is 0 or PhiHeight at each grid point
PhiHeight == 1
\* largest number of grid points of phi (the product of the grid lengths)
MaxPhiCells == 8

GridPoints == <<QZero, Q(1, GridDen), QOne>>
\* the strictly increasing grids of at least 2 of these points
Grids ==
    {<<GridPoints[1], GridPoints[2]>>, <<GridPoints[1], GridPoints[3]>>,
     <<GridPoints[2], GridPoints[3]>>, GridPoints}

PhiValues == {QZero, QI(PhiHeight)}

\* the densities over a sequence gs of grids
RECURSIVE Densities(_)
Densities(gs) ==
    IF Len(gs) = 0 THEN PhiValues
    ELSE [1..Len(Head(gs)) -> Densities(Tail(gs))]

RECURSIVE SeqSum(_)
SeqSum(s) == IF s = <<>> THEN 0 ELSE Head(s) + SeqSum(Tail(s))

GridCells(gs) == Prod([k \in 1..Len(gs) |-> Len(gs[k])])

PhiInputs(r) ==
    UNION {[n : {n \in [1..r -> 0..MaxN] : SeqSum(n) <= MaxN},
            grids : {gs}, phi : Densities(gs)] :
              gs \in {g \in [1..r -> Grids] : GridCells(g) <= MaxPhiCells}}

InitPhi ==
    /\ args \in PhiInputs(1) \cup PhiInputs(2) \cup PhiInputs(3)
    /\ called = "none"
    /\ ret = Masked

CallSfsFromPhi1D ==
    /\ called = "none"
    /\ Len(args.grids) = 1
    /\ called' = "sfs_from_phi_1D"
    /\ ret' = sfs_from_phi_1D(args.n[1], args.grids[1], args.phi)
    /\ UNCHANGED args

CallSfsFromPhi2D ==
    /\ called = "none"
    /\ Len(args.grids) = 2
    /\ called' = "sfs_from_phi_2D"
    /\ ret' = sfs_from_phi_2D(args.n[1], args.n[2],
                              args.grids[1], args.grids[2], args.phi)
    /\ UNCHANGED args

CallSfsFromPhi3D ==
    /\ called = "none"
    /\ Len(args.grids) = 3
    /\ called' = "sfs_from_phi_3D"
    /\ ret' = sfs_from_phi_3D(args.n[1], args.n[2], args.n[3],
                              args.grids[1], args.grids[2], args.grids[3],
                              args.phi)
    /\ UNCHANGED args

NextPhi == CallSfsFromPhi1D \/ CallSfsFromPhi2D \/ CallSfsFromPhi3D

SpecPhi == InitPhi /\ [][NextPhi]_vars

----------------------------------------------------------------------------
(* Property of the discretisation *)

\* the trapezoidal integral of f over the grids gs, first axis outermost:
\* half the spacing times the sum of the two neighbouring slices
RECURSIVE Integral(_, _)
Integral(f, gs) ==
    IF Len(gs) = 0 THEN f
    ELSE LET g == Head(gs)
             slice == [j \in 1..Len(g) |-> Integral(f[j], Tail(gs))]
         IN  QSum([j \in 1..(Len(g) - 1) |->
                     QMul(Q(1, 2), QMul(QSub(g[j + 1], g[j]),
                                        QAdd(slice[j], slice[j + 1])))],
                  1..(Len(g) - 1))

RECURSIVE Uniform(_, _)
Uniform(gs, v) ==
    IF Len(gs) = 0 THEN v ELSE [j \in 1..Len(Head(gs)) |-> Uniform(Tail(gs), v)]

\* the product of the lengths of the domains of the grids
RECURSIVE DomainLength(_)
DomainLength(gs) ==
    IF Len(gs) = 0 THEN QOne
    ELSE QMul(QSub(Head(gs)[Len(Head(gs))], Head(gs)[1]), DomainLength(Tail(gs)))

\* C1: the entries of the SFS returned by sfs_from_phi_1D, _2D and _3D sum to
\* the trapezoidal integral of phi over the grids, and for phi = 1 everywhere
\* to the product of the domain lengths.
C1_SumIsIntegralOfPhi ==
    called \in {"sfs_from_phi_1D", "sfs_from_phi_2D", "sfs_from_phi_3D"} =>
        LET total == QSum(ret.data, Indices(ret.shape))
        IN  /\ ret.shape = [k \in 1..Len(args.n) |-> args.n[k] + 1]
            /\ total = Integral(args.phi, args.grids)
            /\ args.phi = Uniform(args.grids, QOne)
                  => total = DomainLength(args.grids)

\* three populations, sample sizes not all equal, grids of different spacing,
\* a density that is neither zero nor uniform
C1_Witness ==
    /\ called = "sfs_from_phi_3D"
    /\ args.n[1] # args.n[2]
    /\ args.grids[1] # args.grids[2] /\ args.grids[2] # args.grids[3]
    /\ args.phi # Uniform(args.grids, QZero)
    /\ args.phi # Uniform(args.grids, QI(PhiHeight))
    /\ QSum(ret.data, Indices(ret.shape)) # QZero

====
